---- MODULE Spec2Model ----
(***************************************************************************)
(* Model of src/extraction.py: PDFProcessor._extract_structure (the        *)
(* outline builder), PDFProcessor._extract_text (the text assembler) and   *)
(* PDFProcessor._match_structure (the sequential splitter), with the       *)
(* regular expressions they use.                                           *)
(*                                                                         *)
(* A Python str is modelled as a sequence of Unicode code points, offsets  *)
(* are 0-based as in Python.  Code points used below:                      *)
(*   9 TAB, 10 LF, 32 SPACE, 46 ".", 48..57 "0".."9", 65..90 "A".."Z",     *)
(*   97..122 "a".."z", 1040..1071 Cyrillic capitals, 1072..1103 Cyrillic   *)
(*   small letters (1043 1083 1072 1074 1072 is the chapter marker word).  *)
(***************************************************************************)
EXTENDS Integers, Sequences, FiniteSets, TLC

VARIABLES
    toc,             \* _extract_structure: the outline entries <<level, title, page>>
    idx,             \* _extract_structure: 1-based position of the for loop over toc
    current_chapter, \* _extract_structure: local, <<>> models None
    current_section, \* _extract_structure: local, <<>> models None
    structure,       \* self.structure: ordered chapters -> sections -> subsections
    pages,           \* the open document: the text of each page, << >> once it is closed
    start_page,      \* self.start_page, 1-based
    text,            \* self.text
    prev_match_end,  \* _match_structure: the cursor
    prev_level,      \* _match_structure: the active node
    pc,              \* control point
    ci, si, ui,      \* _match_structure: 1-based positions of the three for loops
    searches,        \* history: one record per re.search call of _match_structure
    writes           \* history: one record per effective _set_section_text call

vars == <<toc, idx, current_chapter, current_section, structure, pages, start_page, text,
          prev_match_end, prev_level, pc, ci, si, ui, searches, writes>>

-----------------------------------------------------------------------------
(* Strings *)

Min(a, b) == IF a < b THEN a ELSE b

\* str.isspace / the regex class \s on the modelled code points
IsSpace(c) == c \in {9, 10, 11, 12, 13, 32}

\* the regex class \d on the modelled code points
IsDigit(c) == c \in 48..57

\* simple case folding used by re.IGNORECASE / (?i)
Lower(c) ==
    IF c \in 65..90 \/ c \in 1040..1071 THEN c + 32 ELSE c

\* Python s[a:b] for 0 <= a, 0 <= b
Slice(s, a, b) ==
    IF Min(b, Len(s)) <= a THEN << >> ELSE SubSeq(s, a + 1, Min(b, Len(s)))

\* the character s[p] (0-based), 0 when p is past the end
At(s, p) == IF p >= 0 /\ p < Len(s) THEN s[p + 1] ELSE 0

\* number of whitespace characters of s starting at offset p
RECURSIVE WsRun(_, _)
WsRun(s, p) == IF p < Len(s) /\ IsSpace(At(s, p)) THEN 1 + WsRun(s, p + 1) ELSE 0

\* number of digits of s starting at offset p
RECURSIVE DigitRun(_, _)
DigitRun(s, p) == IF p < Len(s) /\ IsDigit(At(s, p)) THEN 1 + DigitRun(s, p + 1) ELSE 0

\* number of characters other than LF starting at offset p (what ".*" consumes)
RECURSIVE DotRun(_, _)
DotRun(s, p) == IF p < Len(s) /\ At(s, p) # 10 THEN 1 + DotRun(s, p + 1) ELSE 0

\* number of whitespace characters of s ending at offset p (exclusive)
RECURSIVE WsRunBack(_, _)
WsRunBack(s, p) == IF p > 0 /\ IsSpace(At(s, p - 1)) THEN 1 + WsRunBack(s, p - 1) ELSE 0

\* str.strip()
Strip(s) ==
    LET a == WsRun(s, 0)
    IN  IF a = Len(s) THEN << >> ELSE Slice(s, a, Len(s) - WsRunBack(s, Len(s)))

\* _clean_text (the argument is never None here: it is a regex group that took part)
CleanText(s) == Strip(s)

\* the chapter marker word of the patterns
Glava == <<1043, 1083, 1072, 1074, 1072>>

-----------------------------------------------------------------------------
(* Regular expressions: a pattern is a sequence of atoms *)

Lit(c) == [k |-> "lit", c |-> c]

WsStar == [k |-> "ws", c |-> 0]

Dot == [k |-> "dot", c |-> 0]

Caret == [k |-> "bol", c |-> 0]

Lits(s) == [i \in 1..Len(s) |-> Lit(s[i])]

\* re.escape(title).replace('\\ ', '\\s*'): every space becomes \s*, the rest is literal
PrepareRegex(title) ==
    [i \in 1..Len(title) |-> IF title[i] = 32 THEN WsStar ELSE Lit(title[i])]

\* a number interpolated unescaped into a pattern: "." is the wildcard
NumRegex(num) ==
    [i \in 1..Len(num) |-> IF num[i] = 46 THEN Dot ELSE Lit(num[i])]

\* "^" without re.MULTILINE matches at offset 0 only
CaretMatches(s, pos) == pos = 0

\* end offset of the match of atoms k.. of pat at offset pos of s, -1 when none;
\* \s* is greedy and gives back one character at a time
RECURSIVE MatchFrom(_, _, _, _), TryWs(_, _, _, _, _)
MatchFrom(pat, k, s, pos) ==
    IF k > Len(pat) THEN pos
    ELSE LET a == pat[k] IN
         CASE a.k = "lit" ->
                IF pos < Len(s) /\ Lower(At(s, pos)) = Lower(a.c)
                THEN MatchFrom(pat, k + 1, s, pos + 1) ELSE -1
           [] a.k = "dot" ->
                IF pos < Len(s) /\ At(s, pos) # 10
                THEN MatchFrom(pat, k + 1, s, pos + 1) ELSE -1
           [] a.k = "bol" ->
                IF CaretMatches(s, pos) THEN MatchFrom(pat, k + 1, s, pos) ELSE -1
           [] OTHER -> TryWs(pat, k, s, pos, WsRun(s, pos))

TryWs(pat, k, s, pos, n) ==
    LET r == MatchFrom(pat, k + 1, s, pos + n)
    IN  IF r >= 0 THEN r ELSE IF n = 0 THEN -1 ELSE TryWs(pat, k, s, pos, n - 1)

NoMatch == [found |-> FALSE, start |-> 0, end |-> 0]

\* re.search(pat, s): the leftmost match
RECURSIVE SearchFrom(_, _, _)
SearchFrom(pat, s, pos) ==
    IF pos > Len(s) THEN NoMatch
    ELSE LET e == MatchFrom(pat, 1, s, pos)
         IN  IF e >= 0 THEN [found |-> TRUE, start |-> pos, end |-> e]
             ELSE SearchFrom(pat, s, pos + 1)

ReSearch(pat, s) == SearchFrom(pat, s, 0)

\* rf"(?i)Глава\s*{chapter_num}\s*{chapter_title_regex}"
ChapterRegex(num, title) ==
    Lits(Glava) \o <<WsStar>> \o NumRegex(num) \o <<WsStar>> \o PrepareRegex(title)

\* rf"(?i)^{section_num}\s*{section_title_regex}", also used for subsections
SectionRegex(num, title) ==
    <<Caret>> \o NumRegex(num) \o <<WsStar>> \o PrepareRegex(title)

-----------------------------------------------------------------------------
(* Outline builder: the parsers *)

\* title starts with the marker word, compared case-insensitively
HasMarker(title) ==
    Len(title) >= Len(Glava) /\ \A i \in 1..Len(Glava) : Lower(title[i]) = Lower(Glava[i])

\* re.match(r'(Глава\s*)?(\d+)\.?\s*(.*)', title, re.IGNORECASE)
ParseChapter(title) ==
    LET p0 == IF HasMarker(title) THEN Len(Glava) + WsRun(title, Len(Glava)) ELSE 0
        d  == DigitRun(title, p0)
        p1 == p0 + d
        p2 == IF At(title, p1) = 46 THEN p1 + 1 ELSE p1
        p3 == p2 + WsRun(title, p2)
    IN  IF d = 0
        THEN [num |-> << >>, title |-> CleanText(title)]
        ELSE [num |-> Slice(title, p0, p1),
              title |-> CleanText(Slice(title, p3, p3 + DotRun(title, p3)))]

\* re.match(r'^(\d+(\.\d+)?)(?:\.\s*)?(.*)', title)
ParseSection(title) ==
    LET d  == DigitRun(title, 0)
        d2 == IF At(title, d) = 46 THEN DigitRun(title, d + 1) ELSE 0
        p2 == IF d2 > 0 THEN d + 1 + d2 ELSE d
        p3 == IF At(title, p2) = 46 THEN p2 + 1 + WsRun(title, p2 + 1) ELSE p2
    IN  IF d = 0
        THEN [num |-> << >>, title |-> CleanText(title)]
        ELSE [num |-> Slice(title, 0, p2),
              title |-> CleanText(Slice(title, p3, p3 + DotRun(title, p3)))]

\* "$" matches at the end and before a final LF
DollarMatches(s, p) == p = Len(s) \/ (p = Len(s) - 1 /\ At(s, p) = 10)

\* re.match(r'^\d+$', section)
IsSection(s) ==
    LET d == DigitRun(s, 0) IN d > 0 /\ DollarMatches(s, d)

\* re.match(r'^\d+\.\d+$', subsection)
IsSubsection(s) ==
    LET d  == DigitRun(s, 0)
        d2 == IF At(s, d) = 46 THEN DigitRun(s, d + 1) ELSE 0
    IN  d > 0 /\ d2 > 0 /\ DollarMatches(s, d + 1 + d2)

-----------------------------------------------------------------------------
(* Ordered dictionaries: a dict is the sequence of its values in insertion   *)
(* order, each value carrying its key in the field num.  A node's text is    *)
(* << >> while the node has no 'text' key and <<s>> once the key holds s.    *)

KeyIndex(d, key) ==
    IF \E i \in 1..Len(d) : d[i].num = key
    THEN CHOOSE i \in 1..Len(d) : d[i].num = key
    ELSE 0

HasKey(d, key) == KeyIndex(d, key) # 0

\* d[rec.num] = rec: an existing key keeps its position, a new key goes last
DictSet(d, rec) ==
    IF HasKey(d, rec.num) THEN [d EXCEPT ![KeyIndex(d, rec.num)] = rec]
    ELSE Append(d, rec)

NoText == << >>

ChapterNode(num, title) ==
    [num |-> num, title |-> title, text |-> NoText, sections |-> << >>]

SectionNode(num, title) ==
    [num |-> num, title |-> title, text |-> NoText, subsections |-> << >>]

SubsectionNode(num, title) ==
    [num |-> num, title |-> title, text |-> NoText]

-----------------------------------------------------------------------------
(* Outline builder: one iteration of the loop of _extract_structure *)

\* toc.index(entry), 1-based: the first position holding an equal entry
TocIndex(t, e) == CHOOSE i \in 1..Len(t) : t[i] = e /\ \A j \in 1..(i - 1) : t[j] # e

\* variant of NextItemTitle: the borrowed title is parsed like a section title,
\* which drops its leading number
NextItemTitleParsed(t, e) ==
    IF TocIndex(t, e) < Len(t) THEN ParseSection(t[TocIndex(t, e) + 1][2]).title ELSE << >>

\* the title borrowed for a chapter whose own title is empty
NextItemTitle(t, e) ==
    IF TocIndex(t, e) < Len(t) THEN CleanText(t[TocIndex(t, e) + 1][2]) ELSE << >>

ChapterNumOf(e) == IF e[1] = 1 THEN ParseChapter(e[2]).num ELSE << >>

SectionNumOf(e, cur_chapter) ==
    IF e[1] \in {2, 3} /\ cur_chapter # << >> THEN ParseSection(e[2]).num ELSE << >>

\* which branch of the loop body the entry takes
EntryKind(e, cur_chapter) ==
    CASE ChapterNumOf(e) # << >> -> "chapter"
      [] ChapterNumOf(e) = << >> /\ SectionNumOf(e, cur_chapter) # << >>
           /\ IsSection(SectionNumOf(e, cur_chapter)) -> "section"
      [] ChapterNumOf(e) = << >> /\ SectionNumOf(e, cur_chapter) # << >>
           /\ ~IsSection(SectionNumOf(e, cur_chapter))
           /\ IsSubsection(SectionNumOf(e, cur_chapter)) -> "subsection"
      [] OTHER -> "none"

\* lines 139-145
StepChapter(st, t, e) ==
    LET p     == ParseChapter(e[2])
        title == IF p.title = << >> THEN NextItemTitle(t, e) ELSE p.title
    IN  [structure |-> DictSet(st.structure, ChapterNode(p.num, title)),
         current_chapter |-> p.num,
         current_section |-> st.current_section]

\* lines 148-153
StepSection(st, e) ==
    LET p  == ParseSection(e[2])
        s0 == IF HasKey(st.structure, st.current_chapter) THEN st.structure
              ELSE Append(st.structure, ChapterNode(st.current_chapter, << >>))
        c  == KeyIndex(s0, st.current_chapter)
    IN  [structure |-> [s0 EXCEPT ![c].sections = DictSet(@, SectionNode(p.num, p.title))],
         current_chapter |-> st.current_chapter,
         current_section |-> p.num]

\* lines 155-162
StepSubsection(st, e) ==
    LET p == ParseSection(e[2])
        c == KeyIndex(st.structure, st.current_chapter)
    IN  IF st.current_section # << >> /\ c # 0
        THEN LET secs == IF HasKey(st.structure[c].sections, st.current_section)
                         THEN st.structure[c].sections
                         ELSE Append(st.structure[c].sections,
                                     SectionNode(st.current_section, << >>))
                 s    == KeyIndex(secs, st.current_section)
             IN  [st EXCEPT !.structure[c].sections =
                     [secs EXCEPT ![s].subsections =
                                DictSet(@, SubsectionNode(p.num, p.title))]]
        ELSE st

\* the loop body, lines 136-162
BuildStep(st, t, i) ==
    LET e == t[i]
        k == EntryKind(e, st.current_chapter)
    IN  CASE k = "chapter"    -> StepChapter(st, t, e)
          [] k = "section"    -> StepSection(st, e)
          [] k = "subsection" -> StepSubsection(st, e)
          [] OTHER            -> st

BuildStart == [structure |-> << >>, current_chapter |-> << >>, current_section |-> << >>]

RECURSIVE BuildUpTo(_, _)
BuildUpTo(t, n) == IF n = 0 THEN BuildStart ELSE BuildStep(BuildUpTo(t, n - 1), t, n)

\* _extract_structure as a function of the outline
ExtractStructure(t) == BuildUpTo(t, Len(t)).structure

-----------------------------------------------------------------------------
(* Sequential splitter: helpers of _match_structure *)

StartLevel == [level |-> "start", chapter |-> << >>, section |-> << >>, subsection |-> << >>]

ChapterLevel(c) ==
    [level |-> "chapter", chapter |-> c, section |-> << >>, subsection |-> << >>]

SectionLevel(c, s) ==
    [level |-> "section", chapter |-> c, section |-> s, subsection |-> << >>]

SubsectionLevel(c, s, u) ==
    [level |-> "subsection", chapter |-> c, section |-> s, subsection |-> u]

\* _set_section_text: the structure after the assignment (level 'start' assigns nothing)
SetSectionText(st, lvl, section_text) ==
    LET c == KeyIndex(st, lvl.chapter) IN
    CASE lvl.level = "chapter" ->
           [st EXCEPT ![c].text = <<section_text>>]
      [] lvl.level = "section" ->
           LET s == KeyIndex(st[c].sections, lvl.section)
           IN  [st EXCEPT ![c].sections[s].text = <<section_text>>]
      [] lvl.level = "subsection" ->
           LET s == KeyIndex(st[c].sections, lvl.section)
               u == KeyIndex(st[c].sections[s].subsections, lvl.subsection)
           IN  [st EXCEPT ![c].sections[s].subsections[u].text = <<section_text>>]
      [] OTHER -> st

\* the history of assignments made by _set_section_text
Written(ws, lvl, section_text) ==
    IF lvl.level = "start" THEN ws ELSE Append(ws, [node |-> lvl, text |-> section_text])

\* variant of SpanBefore: the span is trimmed before it is stored
SpanBeforeStripped(s, cursor, m) == Strip(Slice(s, cursor, m.start))

\* self.text[prev_match_end:start], lines 66, 84, 106
SpanBefore(s, cursor, m) == Slice(s, cursor, m.start)

\* variant of CursorAfter: the cursor stops at the start of the heading
CursorAtStart(m) == m.start

\* variant of CursorAfter: the cursor takes the length of the heading
CursorMatchLength(m) == m.end - m.start

\* the cursor after a successful match, lines 69, 87, 109
CursorAfter(m) == m.end

\* if section_text.strip(): lines 67, 85, 107
KeepsSpan(section_text) == Strip(section_text) # << >>

\* the record kept of one re.search call
Searched(node, m, cursor, active) ==
    [node |-> node, found |-> m.found, start |-> m.start, end |-> m.end,
     cursor |-> cursor, active |-> active]

\* the body of "if match:" common to the three loops
Matched(node, m) ==
    LET section_text == SpanBefore(text, prev_match_end, m)
    IN  /\ structure' = IF KeepsSpan(section_text)
                        THEN SetSectionText(structure, prev_level, section_text)
                        ELSE structure
        /\ writes' = IF KeepsSpan(section_text)
                     THEN Written(writes, prev_level, section_text)
                     ELSE writes
        /\ prev_match_end' = CursorAfter(m)
        /\ prev_level' = node
        /\ searches' = Append(searches, Searched(node, m, prev_match_end, prev_level))

\* the "else:" branch common to the three loops: a warning and continue
NotMatched(node, m) ==
    /\ searches' = Append(searches, Searched(node, m, prev_match_end, prev_level))
    /\ UNCHANGED <<structure, writes, prev_match_end, prev_level>>

ChapterMatch(c) == ReSearch(ChapterRegex(c.num, c.title), text)

SectionMatch(n) == ReSearch(SectionRegex(n.num, n.title), text)

BuildVars == <<toc, idx, current_chapter, current_section>>

-----------------------------------------------------------------------------
(* Inputs *)

SeqsUpTo(S, n) == UNION {[1..k -> S] : k \in 0..n}

\* longest outline of the splitter runs
MaxOutline == 3

\* number of pages of a document
MaxPages == 3

\* longest outline of the builder runs
MaxToc == 4

\* outline entries of the splitter runs:
\*   (1, "1 a", 1)  (1, "2 b", 1)  (2, "1", 1)  (3, "1.1 d", 2)
MatchEntries ==
    { <<1, <<49, 32, 97>>, 1>>,
      <<1, <<50, 32, 98>>, 1>>,
      <<2, <<49>>, 1>>,
      <<3, <<49, 46, 49, 32, 100>>, 2>> }

\* page texts, as page.get_text("text") returns them:
\*   "Глава 1 a"   "x глава2B"   "1.1 d"   "1"   "x"   "" (a page without text)
PageTexts ==
    { <<1043, 1083, 1072, 1074, 1072, 32, 49, 32, 97>>,
      <<120, 32, 1075, 1083, 1072, 1074, 1072, 50, 66>>,
      <<49, 46, 49, 32, 100>>,
      <<49>>,
      <<120>>,
      << >> }

\* the documents of the splitter runs
Documents == SeqsUpTo(PageTexts, MaxPages)

\* the first page read is the first or the second page of the document
StartPages == {1, 2}

\* the trees _extract_structure builds from the outlines of the splitter runs
MatchStructures == {ExtractStructure(t) : t \in SeqsUpTo(MatchEntries, MaxOutline)}

\* outline entries of the builder runs:
\*   (1, "1 a", 1)  (1, "Глава 2", 1)  (1, "In", 1)  (2, "2 s", 1)
\*   (3, "2.1 t", 2)  (3, "2.1.3 u", 2)  (2, "3. v", 2)
BuildEntries ==
    { <<1, <<49, 32, 97>>, 1>>,
      <<1, <<1043, 1083, 1072, 1074, 1072, 32, 50>>, 1>>,
      <<1, <<73, 110>>, 1>>,
      <<2, <<50, 32, 115>>, 1>>,
      <<3, <<50, 46, 49, 32, 116>>, 2>>,
      <<3, <<50, 46, 49, 46, 51, 32, 117>>, 2>>,
      <<2, <<51, 46, 32, 118>>, 2>> }

-----------------------------------------------------------------------------
(* The text assembler: _extract_text on the pages of the document *)

\* for page_num in range(self.start_page - 1, len(doc)): the pages read, in order
PagesFrom(ps, start) == SubSeq(ps, start, Len(ps))

\* if page_text: a page whose text is empty is left out
HasText(page_text) == page_text # << >>

\* text_list when the loop of lines 46-50 ends
TextList(ps, start) == SelectSeq(PagesFrom(ps, start), HasText)

\* '\n'.join(text_list)
RECURSIVE JoinLines(_)
JoinLines(text_list) ==
    IF text_list = << >> THEN << >>
    ELSE IF Len(text_list) = 1 THEN text_list[1]
    ELSE text_list[1] \o <<10>> \o JoinLines(Tail(text_list))

\* self.text after _extract_text
ExtractedText(ps, start) == JoinLines(TextList(ps, start))

-----------------------------------------------------------------------------
(* The splitter: process_book on a built tree and a document, _extract_text and *)
(* then _match_structure                                                        *)

MatchVars == <<pages, start_page, text, prev_match_end, prev_level, ci, si, ui,
               searches, writes>>

Init ==
    /\ structure \in MatchStructures
    /\ pages \in Documents
    /\ start_page \in StartPages
    /\ text = << >>
    /\ toc = << >> /\ idx = 0 /\ current_chapter = << >> /\ current_section = << >>
    /\ prev_match_end = 0
    /\ prev_level = StartLevel
    /\ pc = "text"
    /\ ci = 1 /\ si = 0 /\ ui = 0
    /\ searches = << >>
    /\ writes = << >>

\* lines 43-52 and 167: the pages are read, the document is closed when the with
\* block ends, self.text is assigned and _match_structure starts
ExtractText ==
    /\ pc = "text"
    /\ text' = ExtractedText(pages, start_page)
    /\ pages' = << >>
    /\ pc' = "chapter"
    /\ UNCHANGED <<start_page, structure, prev_match_end, prev_level, ci, si, ui,
                   searches, writes, BuildVars>>

CurChapter == structure[ci]

CurSection == structure[ci].sections[si]

CurSubsection == structure[ci].sections[si].subsections[ui]

\* lines 58-70
ChapterFound ==
    /\ pc = "chapter" /\ ci <= Len(structure)
    /\ ChapterMatch(CurChapter).found
    /\ Matched(ChapterLevel(CurChapter.num), ChapterMatch(CurChapter))
    /\ pc' = "section" /\ si' = 1
    /\ UNCHANGED <<ci, ui, text, pages, start_page, BuildVars>>

\* lines 71-73: continue with the next chapter
ChapterNotFound ==
    /\ pc = "chapter" /\ ci <= Len(structure)
    /\ ~ChapterMatch(CurChapter).found
    /\ NotMatched(ChapterLevel(CurChapter.num), ChapterMatch(CurChapter))
    /\ ci' = ci + 1
    /\ UNCHANGED <<pc, si, ui, text, pages, start_page, BuildVars>>

\* the loop over the chapters is exhausted
ChaptersEnd ==
    /\ pc = "chapter" /\ ci > Len(structure)
    /\ pc' = "last"
    /\ UNCHANGED <<structure, ci, si, ui, text, pages, start_page,
                   prev_match_end, prev_level,
                   searches, writes, BuildVars>>

\* lines 76-92
SectionFound ==
    /\ pc = "section" /\ si <= Len(CurChapter.sections)
    /\ SectionMatch(CurSection).found
    /\ Matched(SectionLevel(CurChapter.num, CurSection.num), SectionMatch(CurSection))
    /\ pc' = "subsection" /\ ui' = 1
    /\ UNCHANGED <<ci, si, text, pages, start_page, BuildVars>>

\* lines 93-95: continue with the next section
SectionNotFound ==
    /\ pc = "section" /\ si <= Len(CurChapter.sections)
    /\ ~SectionMatch(CurSection).found
    /\ NotMatched(SectionLevel(CurChapter.num, CurSection.num), SectionMatch(CurSection))
    /\ si' = si + 1
    /\ UNCHANGED <<pc, ci, ui, text, pages, start_page, BuildVars>>

\* the loop over the sections of a chapter is exhausted
SectionsEnd ==
    /\ pc = "section" /\ si > Len(CurChapter.sections)
    /\ pc' = "chapter" /\ ci' = ci + 1
    /\ UNCHANGED <<structure, si, ui, text, pages, start_page,
                   prev_match_end, prev_level,
                   searches, writes, BuildVars>>

\* lines 98-115
SubsectionFound ==
    /\ pc = "subsection" /\ ui <= Len(CurSection.subsections)
    /\ SectionMatch(CurSubsection).found
    /\ Matched(SubsectionLevel(CurChapter.num, CurSection.num, CurSubsection.num),
               SectionMatch(CurSubsection))
    /\ ui' = ui + 1
    /\ UNCHANGED <<pc, ci, si, text, pages, start_page, BuildVars>>

\* lines 116-118
SubsectionNotFound ==
    /\ pc = "subsection" /\ ui <= Len(CurSection.subsections)
    /\ ~SectionMatch(CurSubsection).found
    /\ NotMatched(SubsectionLevel(CurChapter.num, CurSection.num, CurSubsection.num),
                  SectionMatch(CurSubsection))
    /\ ui' = ui + 1
    /\ UNCHANGED <<pc, ci, si, text, pages, start_page, BuildVars>>

\* the loop over the subsections of a section is exhausted
SubsectionsEnd ==
    /\ pc = "subsection" /\ ui > Len(CurSection.subsections)
    /\ pc' = "section" /\ si' = si + 1
    /\ UNCHANGED <<structure, ci, ui, text, pages, start_page,
                   prev_match_end, prev_level,
                   searches, writes, BuildVars>>

\* if prev_match_end < len(self.text): line 121
HasTail(s, cursor) == cursor < Len(s)

\* lines 120-125: process the last section, return
LastSection ==
    /\ pc = "last"
    /\ LET section_text == Slice(text, prev_match_end, Len(text))
       IN  IF HasTail(text, prev_match_end)
           THEN /\ structure' = SetSectionText(structure, prev_level, section_text)
                /\ writes' = Written(writes, prev_level, section_text)
           ELSE UNCHANGED <<structure, writes>>
    /\ pc' = "done"
    /\ UNCHANGED <<ci, si, ui, text, pages, start_page, prev_match_end, prev_level,
                   searches, BuildVars>>

Next ==
    \/ ExtractText
    \/ ChapterFound
    \/ ChapterNotFound
    \/ ChaptersEnd
    \/ SectionFound
    \/ SectionNotFound
    \/ SectionsEnd
    \/ SubsectionFound
    \/ SubsectionNotFound
    \/ SubsectionsEnd
    \/ LastSection

Spec == Init /\ [][Next]_vars

-----------------------------------------------------------------------------
(* The builder: _extract_structure on an outline *)

InitBuild ==
    /\ toc \in SeqsUpTo(BuildEntries, MaxToc)
    /\ idx = 1
    /\ current_chapter = << >>
    /\ current_section = << >>
    /\ structure = << >>
    /\ pc = "extract"
    /\ pages = << >>
    /\ start_page = 1
    /\ text = << >>
    /\ prev_match_end = 0
    /\ prev_level = StartLevel
    /\ ci = 0 /\ si = 0 /\ ui = 0
    /\ searches = << >>
    /\ writes = << >>

BuildState ==
    [structure |-> structure, current_chapter |-> current_chapter,
     current_section |-> current_section]

\* the entry the loop of lines 135-162 is at, and what the iteration leaves behind
AtEntry(kind) ==
    pc = "extract" /\ idx <= Len(toc) /\ EntryKind(toc[idx], current_chapter) = kind

Extracted(st) ==
    /\ structure' = st.structure
    /\ current_chapter' = st.current_chapter
    /\ current_section' = st.current_section
    /\ idx' = idx + 1
    /\ UNCHANGED <<toc, pc, MatchVars>>

\* lines 139-145
ExtractChapter ==
    /\ AtEntry("chapter")
    /\ Extracted(StepChapter(BuildState, toc, toc[idx]))

\* lines 147-153
ExtractSection ==
    /\ AtEntry("section")
    /\ Extracted(StepSection(BuildState, toc[idx]))

\* lines 155-162
ExtractSubsection ==
    /\ AtEntry("subsection")
    /\ Extracted(StepSubsection(BuildState, toc[idx]))

\* no branch is taken: the entry leaves no trace
ExtractNothing ==
    /\ AtEntry("none")
    /\ Extracted(BuildState)

\* line 164
ExtractReturn ==
    /\ pc = "extract" /\ idx > Len(toc)
    /\ pc' = "built"
    /\ UNCHANGED <<toc, idx, current_chapter, current_section, structure, MatchVars>>

NextBuild ==
    \/ ExtractChapter
    \/ ExtractSection
    \/ ExtractSubsection
    \/ ExtractNothing
    \/ ExtractReturn

SpecBuild == InitBuild /\ [][NextBuild]_vars

-----------------------------------------------------------------------------
(* Vocabulary of the properties of the splitter *)

IsFound(r) == r.found

\* the concatenation of a sequence of sequences
RECURSIVE Flatten(_)
Flatten(ss) == IF ss = << >> THEN << >> ELSE Head(ss) \o Flatten(Tail(ss))

\* the successful searches, in traversal order
Found == SelectSeq(searches, IsFound)

SubsectionLevels(c, s) ==
    [u \in 1..Len(s.subsections) |-> SubsectionLevel(c.num, s.num, s.subsections[u].num)]

SectionLevels(c) ==
    Flatten([i \in 1..Len(c.sections) |->
                <<SectionLevel(c.num, c.sections[i].num)>>
                    \o SubsectionLevels(c, c.sections[i])])

\* the nodes of a tree in pre-order
PreOrder(st) ==
    Flatten([i \in 1..Len(st) |-> <<ChapterLevel(st[i].num)>> \o SectionLevels(st[i])])

\* the node of the tree a level names
NodeAt(st, n) ==
    LET c == st[KeyIndex(st, n.chapter)] IN
    IF n.level = "chapter" THEN c
    ELSE LET sec == c.sections[KeyIndex(c.sections, n.section)] IN
         IF n.level = "section" THEN sec
         ELSE sec.subsections[KeyIndex(sec.subsections, n.subsection)]

TextOf(st, n) == NodeAt(st, n).text

\* a node's text as a string: the empty string while it has none
TextOrEmpty(st, n) == IF TextOf(st, n) = NoText THEN << >> ELSE TextOf(st, n)[1]

IsBlank(s) == \A i \in 1..Len(s) : s[i] \in {9, 10, 11, 12, 13, 32}

\* the text between the j-th successful match and the next one (the end of the
\* document after the last one)
SpanAfter(j) ==
    Slice(text, Found[j].end, IF j < Len(Found) THEN Found[j + 1].start ELSE Len(text))

\* each matched heading ends before the next matched heading starts
HeadingsInOrder ==
    \A j \in 1..(Len(Found) - 1) : Found[j].end <= Found[j + 1].start

\* every node of the tree has been searched and found
AllMatched ==
    /\ Len(Found) = Len(PreOrder(structure))
    /\ \A j \in 1..Len(Found) : Found[j].node = PreOrder(structure)[j]

-----------------------------------------------------------------------------
(* Properties of the splitter *)

\* C7: in every state of a run of _match_structure, a node that has a text was
\* matched, and its text is exactly the document from the end of its own heading
\* match to the start of the next successful match in traversal order (to the end
\* of the document for the last one, assigned on return); no node's text is
\* assigned twice.
C7_NodeTextIsItsSpan ==
    /\ \A i \in 1..Len(PreOrder(structure)) :
         LET n == PreOrder(structure)[i] IN
         TextOf(structure, n) # NoText =>
            \E j \in 1..Len(Found) :
               /\ Found[j].node = n
               /\ TextOf(structure, n) = <<SpanAfter(j)>>
               /\ (j = Len(Found) => pc = "done")
    /\ \A i, j \in 1..Len(writes) : writes[i].node = writes[j].node => i = j

\* C7 witness: a finished run in which a node took the span up to the next
\* heading, the last matched node took the tail, and some node was never matched.
C7_Witness ==
    /\ pc = "done"
    /\ Len(Found) >= 2
    /\ TextOf(structure, Found[1].node) # NoText
    /\ TextOf(structure, Found[Len(Found)].node) # NoText
    /\ Len(Found) < Len(PreOrder(structure))

\* C3: while the matched headings lie in the text one after the other, every
\* successful match starts at or after the cursor held when it was searched, and
\* the cursor never decreases from one search to the next.
C3_MonotonicCursor ==
    HeadingsInOrder =>
        /\ \A i \in 1..Len(searches) :
              searches[i].found => searches[i].start >= searches[i].cursor
        /\ \A i \in 1..(Len(searches) - 1) : searches[i].cursor <= searches[i + 1].cursor
        /\ \A i \in 1..Len(searches) : searches[i].cursor <= prev_match_end

\* C3 witness: two headings found one after the other, text between them, and a
\* failed search in the same run.
C3_Witness ==
    /\ HeadingsInOrder
    /\ Len(Found) >= 2
    /\ Found[2].start > Found[2].cursor
    /\ Len(Found) < Len(searches)

\* the heading text of the j-th successful match
Heading(j) == Slice(text, Found[j].start, Found[j].end)

\* the texts of the first j nodes of the tree, concatenated in traversal order
RECURSIVE NodeTextsUpTo(_)
NodeTextsUpTo(j) ==
    IF j = 0 THEN << >>
    ELSE NodeTextsUpTo(j - 1) \o TextOrEmpty(structure, PreOrder(structure)[j])

\* heading then text of the first j matched nodes, concatenated in traversal order
RECURSIVE HeadingsAndTextsUpTo(_)
HeadingsAndTextsUpTo(j) ==
    IF j = 0 THEN << >>
    ELSE HeadingsAndTextsUpTo(j - 1) \o Heading(j) \o TextOrEmpty(structure, Found[j].node)

\* the document from the first match to the end of the span after the j-th one,
\* without the whitespace-only spans that lie between two matches
RECURSIVE DocumentUpTo(_)
DocumentUpTo(j) ==
    IF j = 0 THEN << >>
    ELSE DocumentUpTo(j - 1) \o Heading(j)
            \o (IF j < Len(Found) /\ IsBlank(SpanAfter(j)) THEN << >> ELSE SpanAfter(j))

\* C1 (as claimed): when every heading matches, in outline order, the texts of the
\* nodes concatenated in traversal order are the document from the first match on.
C1_TextsReproduceDocument ==
    (pc = "done" /\ AllMatched /\ HeadingsInOrder /\ Len(Found) > 0) =>
        NodeTextsUpTo(Len(Found)) = Slice(text, Found[1].start, Len(text))

\* C1 (amended): when every heading matches, in outline order, each node's matched
\* heading followed by its text, concatenated in traversal order, is the document
\* from the first match on with the whitespace-only spans between two matches
\* removed: the preamble, the headings and those spans are all that no node gets.
C1_HeadingsAndTextsReproduceDocument ==
    (pc = "done" /\ AllMatched /\ HeadingsInOrder) =>
        HeadingsAndTextsUpTo(Len(Found)) = DocumentUpTo(Len(Found))

\* C1 witness: a finished run where two or more headings all matched in order and
\* the first node got the text up to the second heading.
C1_Witness ==
    /\ pc = "done" /\ AllMatched /\ HeadingsInOrder
    /\ Len(Found) >= 2
    /\ TextOf(structure, Found[1].node) # NoText

\* C6 (as claimed): when the run is over every node carries a text, the empty
\* string for a node that was never matched (so for every node of an empty document).
C6_EveryNodeCarriesText ==
    pc = "done" =>
        \A i \in 1..Len(PreOrder(structure)) :
            LET n == PreOrder(structure)[i] IN
            /\ TextOf(structure, n) # NoText
            /\ (\A j \in 1..Len(Found) : Found[j].node # n) => TextOf(structure, n) = << << >> >>

\* offsets at which a line of s starts
LineStarts(s) == {0} \cup {p \in 1..Len(s) : s[p] = 10}

\* the heading of section or subsection nd stands at the start of a line of the text
HeadingAtLineStart(nd) ==
    \E p \in LineStarts(text) : MatchFrom(SectionRegex(nd.num, nd.title), 2, text, p) >= 0

\* C4 (as claimed): a section or subsection whose heading stands at the start of
\* any line of the text is matched when it is searched.
C4_SectionMatchedAtAnyLineStart ==
    \A i \in 1..Len(searches) :
        (searches[i].node.level # "chapter"
            /\ HeadingAtLineStart(NodeAt(structure, searches[i].node)))
        => searches[i].found

\* the match of a node's own pattern in the text
HeadingMatch(n) ==
    IF n.level = "chapter" THEN ChapterMatch(NodeAt(structure, n))
    ELSE SectionMatch(NodeAt(structure, n))

IsPresent(n) == HeadingMatch(n).found

\* the nodes whose heading is in the text, in pre-order
PresentNodes == SelectSeq(PreOrder(structure), IsPresent)

\* exactly one heading is absent and the others lie in the text in outline order
OneHeadingMissing ==
    /\ Len(PresentNodes) = Len(PreOrder(structure)) - 1
    /\ \A j \in 1..(Len(PresentNodes) - 1) :
          HeadingMatch(PresentNodes[j]).end <= HeadingMatch(PresentNodes[j + 1]).start

\* C2 (as claimed): with exactly one heading absent the run ends with the missing
\* node's text empty and every other node holding the text that follows its heading
\* (compared after trimming).
C2_OthersKeepTheirText ==
    (pc = "done" /\ OneHeadingMissing) =>
        /\ \A i \in 1..Len(PreOrder(structure)) :
              ~IsPresent(PreOrder(structure)[i])
                 => TextOrEmpty(structure, PreOrder(structure)[i]) = << >>
        /\ \A j \in 1..Len(PresentNodes) :
              Strip(TextOrEmpty(structure, PresentNodes[j])) =
                 Strip(Slice(text, HeadingMatch(PresentNodes[j]).end,
                             IF j < Len(PresentNodes)
                             THEN HeadingMatch(PresentNodes[j + 1]).start
                             ELSE Len(text)))

\* C10 (as claimed): a failed search leaves the cursor and the active node as they
\* were, and when the run is over every node of the tree has been searched exactly
\* once, in pre-order.
C10_FailureSkipsNothing ==
    /\ \A i \in 1..(Len(searches) - 1) :
          ~searches[i].found =>
              /\ searches[i + 1].cursor = searches[i].cursor
              /\ searches[i + 1].active = searches[i].active
    /\ pc = "done" =>
          /\ Len(searches) = Len(PreOrder(structure))
          /\ \A i \in 1..Len(searches) : searches[i].node = PreOrder(structure)[i]

-----------------------------------------------------------------------------
(* Properties of the builder *)

\* the loop of _extract_structure is at an entry of depth 2 or 3 with a chapter active
AtSectionEntry ==
    pc = "extract" /\ idx <= Len(toc) /\ toc[idx][1] \in {2, 3} /\ current_chapter # << >>

\* number of dotted components of the numeral at offset p of a title:
\* 1 for "2", 2 for "2.1", 3 for "2.1.3", 0 when there is no numeral
RECURSIVE Components(_, _)
Components(title, p) ==
    LET d == DigitRun(title, p) IN
    IF d = 0 THEN 0
    ELSE IF At(title, p + d) = 46 /\ DigitRun(title, p + d + 1) > 0
         THEN 1 + Components(title, p + d + 1)
         ELSE 1

\* the first component "N" and the first two components "N.M" of such a numeral
FirstComponent(title) == Slice(title, 0, DigitRun(title, 0))

FirstTwoComponents(title) ==
    Slice(title, 0, DigitRun(title, 0) + 1 + DigitRun(title, DigitRun(title, 0) + 1))

\* the sections of the current chapter before and after the step
SectionsNow == structure[KeyIndex(structure, current_chapter)].sections

SectionsNext == structure'[KeyIndex(structure', current_chapter)].sections

\* C5 (as claimed): an entry of depth 2 or 3 numbered "N" becomes section "N" of the
\* current chapter, one numbered "N.M" becomes subsection "N.M" of that chapter's
\* section "N", and one with three or more components leaves the tree as it was.
C5_Classification ==
    [][AtSectionEntry =>
         LET title == toc[idx][2]
             n     == Components(title, 0)
         IN  /\ n = 1 => HasKey(SectionsNext, FirstComponent(title))
             /\ (n = 2 /\ HasKey(SectionsNow, FirstComponent(title))) =>
                   HasKey(SectionsNext[KeyIndex(SectionsNext, FirstComponent(title))].subsections,
                          FirstTwoComponents(title))
             /\ n >= 3 => structure' = structure]_vars

\* C8 (as claimed): a subsection entry met while the current chapter has no section
\* gives that chapter one section with an empty title that holds the subsection,
\* under a number that is not the one left over from an earlier chapter.
C8_ImplicitSection ==
    [][(AtSectionEntry /\ Components(toc[idx][2], 0) = 2 /\ SectionsNow = << >>) =>
         /\ Len(SectionsNext) = 1
         /\ SectionsNext[1].title = << >>
         /\ HasKey(SectionsNext[1].subsections, FirstTwoComponents(toc[idx][2]))
         /\ SectionsNext[1].num # current_section]_vars

\* the trimmed raw title of the entry after position i of the outline
TitleAfter(i) == IF i < Len(toc) THEN Strip(toc[i + 1][2]) ELSE << >>

\* the first position of the outline that holds an entry equal to the one at i
FirstEqual(i) == CHOOSE f \in 1..i : toc[f] = toc[i] /\ \A j \in 1..(f - 1) : toc[j] # toc[i]

\* C9 (as claimed): every depth-1 entry in whose title no leading integer is found
\* has yielded a chapter titled like the next entry (empty when it is the last).
C9_UnnumberedChapterKept ==
    \A i \in 1..(idx - 1) :
        (pc \in {"extract", "built"} /\ toc[i][1] = 1 /\ ParseChapter(toc[i][2]).num = << >>)
        => \E c \in 1..Len(structure) : structure[c].title = TitleAfter(i)

\* C9 (amended): a depth-1 entry whose title yields a chapter number but no title
\* text makes a chapter titled with the trimmed raw title of the entry that follows
\* the first outline entry equal to it (empty when nothing follows); a depth-1
\* entry in whose title no leading integer is found leaves the tree as it was.
C9_NumberedChapterBorrowsTitle ==
    [][(pc = "extract" /\ idx <= Len(toc) /\ toc[idx][1] = 1) =>
         LET p == ParseChapter(toc[idx][2]) IN
         IF p.num = << >> THEN structure' = structure
         ELSE /\ HasKey(structure', p.num)
              /\ p.title = << >> =>
                    structure'[KeyIndex(structure', p.num)].title = TitleAfter(FirstEqual(idx))]_vars

\* C9 witness: the outline held a numbered chapter without title text that now
\* carries the raw title of the entry after it, and an unnumbered depth-1 entry
\* that left no chapter.
C9_Witness ==
    /\ pc = "built"
    /\ \E i \in 1..(Len(toc) - 1) :
          /\ toc[i][1] = 1
          /\ ParseChapter(toc[i][2]).num # << >>
          /\ ParseChapter(toc[i][2]).title = << >>
          /\ HasKey(structure, ParseChapter(toc[i][2]).num)
          /\ structure[KeyIndex(structure, ParseChapter(toc[i][2]).num)].title = TitleAfter(i)
          /\ TitleAfter(i) # ParseSection(toc[i + 1][2]).title
    /\ \E k \in 1..Len(toc) : toc[k][1] = 1 /\ ParseChapter(toc[k][2]).num = << >>
    /\ Len(structure) = 1

====
